---- MODULE Spec2Model ----
(***************************************************************************)
(* A model of src/base.py: the persistence base of models_manager.         *)
(*                                                                         *)
(* Four specifications share the module:                                   *)
(*   ClassifySpec   the constraint-violation classifier on its own, over   *)
(*                  every backend message up to MaxMsgLen tokens;          *)
(*   FilterSpec     BaseModel.filter over every small table and argument   *)
(*                  combination, called twice with the same argument       *)
(*                  objects;                                               *)
(*   Spec           the record lifecycle (create / save / update / delete  *)
(*                  / undelete / get_by_id / get_by_name) inside one       *)
(*                  unit-of-work;                                          *)
(*   AuditSpec      create / save / update of one record type with data    *)
(*                  that may name the audit columns, and time passing      *)
(*                  between the calls.                                     *)
(***************************************************************************)
EXTENDS Integers, Sequences, FiniteSets, TLC

VARIABLES
    info,           \* exc.orig.args of the failure handed to the classifier
    raised,         \* the exception the last call left with (NoError if none)
    log,            \* the logger / session calls of the last call, in order
    table,          \* FilterSpec: the rows of the queried table
    cls,            \* FilterSpec: the record type filter is called on
    filters,        \* FilterSpec: the caller's filters dict object
    conditions,     \* FilterSpec: the caller's conditions list object
    pagination,     \* FilterSpec: the caller's Pagination (or NoPagination)
    sorting,        \* FilterSpec: the caller's sorting (or NoSorting)
    calls,          \* FilterSpec: what each finished filter call saw and returned
    store,          \* Spec: the rows of the backing store
    clock,          \* Spec: the last reading of utcnow
    nextId,         \* Spec: each table's next primary-key sequence value
    last,           \* Spec: the last call: its name, arguments, before/after
    deletedIds,     \* Spec: identifiers whose row a hard delete removed
    session         \* Spec: "active", or "failed" after a failed flush

fvars == <<table, cls, filters, conditions, pagination, sorting, calls>>
lvars == <<store, clock, nextId, last, deletedIds, session>>
vars  == <<info, raised, log, table, cls, filters, conditions, pagination,
           sorting, calls, store, clock, nextId, last, deletedIds, session>>

(***************************************************************************)
(* Bounds.                                                                 *)
(***************************************************************************)
MaxMsgLen == 5

NoError == [kind |-> "none"]

(***************************************************************************)
(* Backend messages.  A message is a sequence of tokens; each token stands *)
(* for a literal piece of text that the two regular expressions tell       *)
(* apart:                                                                  *)
(*    "Key ("                       KEY                                    *)
(*    ")=("                         SEP                                    *)
(*    ") already exists"            EXISTS                                 *)
(*    ") is not present in table"   ABSENT                                 *)
(*    "\n"                          NL                                     *)
(*    any other character           "x"                                    *)
(* The regex "." matches every token but NL (no DOTALL flag).              *)
(***************************************************************************)
KEY    == "Key ("
SEP    == ")=("
EXISTS == ") already exists"
ABSENT == ") is not present in table"
NL     == "\n"
Tokens == {KEY, SEP, EXISTS, ABSENT, NL, "x"}

\* [tail |-> t] is the pattern  Key \((.*)\)=\(.*\) <t>|$
RE_ALREADY_EXIST_COMPILED == [tail |-> EXISTS]
RE_NOT_PRESENT_COMPILED   == [tail |-> ABSENT]

NoMatch == [found |-> FALSE, group |-> <<>>, end |-> 0]

\* ".*" can cover s[a..b] (empty when b < a).
DotStar(s, a, b) == \A k \in a..b : s[k] # NL

\* The largest element of a non-empty set of integers (greedy quantifier).
Greedy(S) == CHOOSE x \in S : \A y \in S : y <= x

\* First alternative tried at position i: KEY (.*) SEP .* tail.  g is the
\* position of SEP and t the position of the tail; both ".*" are greedy, the
\* first one first.
KeyAlternative(re, s, i) ==
    LET n  == Len(s)
        Ts(g) == {t \in (g + 1)..n : s[t] = re.tail /\ DotStar(s, g + 1, t - 1)}
        Gs == {g \in (i + 1)..n : s[g] = SEP /\ DotStar(s, i + 1, g - 1) /\ Ts(g) # {}}
    IN  IF i <= n /\ s[i] = KEY /\ Gs # {}
        THEN LET g == Greedy(Gs)
             IN  [found |-> TRUE, group |-> SubSeq(s, i + 1, g - 1), end |-> Greedy(Ts(g)) + 1]
        ELSE NoMatch

\* Second alternative: "$" matches at the end and before a final newline;
\* its group did not take part and findall reports it as the empty string.
EndAlternative(s, i) ==
    IF i = Len(s) + 1 \/ (i = Len(s) /\ s[i] = NL)
    THEN [found |-> TRUE, group |-> <<>>, end |-> i]
    ELSE NoMatch

MatchAt(re, s, i) ==
    LET m == KeyAlternative(re, s, i)
    IN  IF m.found THEN m ELSE EndAlternative(s, i)

\* re.findall(re, s): the groups of the non-overlapping matches, left to
\* right, scanning from position i.
RECURSIVE FindAllFrom(_, _, _)
FindAllFrom(re, s, i) ==
    IF i > Len(s) + 1 THEN <<>>
    ELSE LET m == MatchAt(re, s, i)
         IN  IF ~m.found THEN FindAllFrom(re, s, i + 1)
             ELSE IF m.end = i THEN <<m.group>> \o FindAllFrom(re, s, i + 1)
             ELSE <<m.group>> \o FindAllFrom(re, s, m.end)

findall(re, s) == FindAllFrom(re, s, 1)

\* Python truthiness of a list / string / tuple.
Truthy(x) == x # <<>>

\* The classifier with the two pattern tests in the other order.
ExistsBeforePresentSwapped(args, clsName) ==
    LET ae == IF Truthy(args) THEN findall(RE_ALREADY_EXIST_COMPILED, args[1]) ELSE <<>>
        np == IF Truthy(args) THEN findall(RE_NOT_PRESENT_COMPILED, args[1]) ELSE <<>>
    IN  IF Truthy(args) /\ Truthy(np) /\ Truthy(np[1])
        THEN [error |-> [kind |-> "DatabaseValidationError",
                         message |-> "Foreign key constraint violated for",
                         cls |-> clsName, cols |-> np[1]],
              logged |-> <<>>]
        ELSE IF Truthy(args) /\ Truthy(ae) /\ Truthy(ae[1])
        THEN [error |-> [kind |-> "DatabaseValidationError",
                         message |-> "Unique constraint violated for",
                         cls |-> clsName, cols |-> ae[1]],
              logged |-> <<>>]
        ELSE [error |-> [kind |-> "DatabaseIntegrityError",
                         message |-> "Integrity error for", cls |-> clsName],
              logged |-> <<"logger.error">>]

\* BaseModel._raise_validation_exception: the error raised and what is logged.
_raise_validation_exception(args, clsName) ==
    LET ae == IF Truthy(args) THEN findall(RE_ALREADY_EXIST_COMPILED, args[1]) ELSE <<>>
        np == IF Truthy(args) THEN findall(RE_NOT_PRESENT_COMPILED, args[1]) ELSE <<>>
    IN  IF Truthy(args) /\ Truthy(ae) /\ Truthy(ae[1])
        THEN [error |-> [kind |-> "DatabaseValidationError",
                         message |-> "Unique constraint violated for",
                         cls |-> clsName, cols |-> ae[1]],
              logged |-> <<>>]
        ELSE IF Truthy(args) /\ Truthy(np) /\ Truthy(np[1])
        THEN [error |-> [kind |-> "DatabaseValidationError",
                         message |-> "Foreign key constraint violated for",
                         cls |-> clsName, cols |-> np[1]],
              logged |-> <<>>]
        ELSE [error |-> [kind |-> "DatabaseIntegrityError",
                         message |-> "Integrity error for", cls |-> clsName],
              logged |-> <<"logger.error">>]

(***************************************************************************)
(* Record types.  Two concrete record types extend the base classes:       *)
(*   Team   BaseModelWithName + BaseModelSoftDelete, searchable by name;   *)
(*   Tag    BaseModelWithName only, __search_like_fields__ left at its     *)
(*          default, the empty set.                                        *)
(***************************************************************************)
RecordTypes == {"Team", "Tag"}

Columns(c) ==
    {"id", "name", "creator_id", "created_at", "updated_at"}
        \cup (IF c = "Team" THEN {"is_active"} ELSE {})

\* getattr(cls, field_name) finds an attribute.
HasAttr(c, f) == f \in Columns(c)

search_like_fields(c) == IF c = "Team" THEN {"name"} ELSE {}

\* BaseModelSoftDelete.delete overrides BaseModel.delete.
SoftDeletable(c) == c = "Team"

(***************************************************************************)
(* Strings are sequences of characters.                                    *)
(***************************************************************************)
Name1 == <<"A", " ", "T">>
Name2 == <<"B", "T">>
Name3 == <<"t", "a">>
Names == {Name1, Name2, Name3}

Lower(ch) == CASE ch = "A" -> "a" [] ch = "B" -> "b" [] ch = "T" -> "t" [] OTHER -> ch

\* s LIKE p: "%" stands for any run of characters, "_" for any one.
RECURSIVE Like(_, _)
Like(s, p) ==
    IF p = <<>> THEN s = <<>>
    ELSE IF Head(p) = "%"
         THEN Like(s, Tail(p)) \/ (s # <<>> /\ Like(Tail(s), p))
    ELSE /\ s # <<>>
         /\ (Head(p) = "_" \/ Head(p) = Head(s))
         /\ Like(Tail(s), Tail(p))

\* s ILIKE p: LIKE on the lower-cased operands.
ilike(s, p) == Like([i \in 1..Len(s) |-> Lower(s[i])], [i \in 1..Len(p) |-> Lower(p[i])])

\* f"%{search_like_string}%".replace(" ", "%")
SlsPattern(tok) ==
    LET q == <<"%">> \o tok \o <<"%">>
    IN  [i \in 1..Len(q) |-> IF q[i] = " " THEN "%" ELSE q[i]]

(***************************************************************************)
(* Query expressions.  A clause is one of                                  *)
(*    [op |-> "eq",    field, value]                                       *)
(*    [op |-> "ilike", field, value]                                       *)
(*    [op |-> "or",    args]     [op |-> "and", args]                      *)
(* and a statement is [wheres, order_by, limit, offset].                   *)
(***************************************************************************)
Eq(f, v)    == [op |-> "eq", field |-> f, value |-> v]
ILike(f, p) == [op |-> "ilike", field |-> f, value |-> p]
OrOf(cs)    == [op |-> "or", args |-> cs]
AndOf(cs)   == [op |-> "and", args |-> cs]

NoLimit == -1
select == [wheres |-> <<>>, order_by |-> <<>>, limit |-> NoLimit, offset |-> 0]

where(stmt, clause) == [stmt EXCEPT !.wheres = Append(@, clause)]

\* An OR group that is false when it has no members.
EmptyOrIsFalse(args, holds) == \E i \in 1..Len(args) : holds[i]

\* sa.or_(*args) under WHERE: a group without members renders no SQL and
\* leaves the statement unrestricted; otherwise some member holds.
or_(args, holds) == args = <<>> \/ \E i \in 1..Len(args) : holds[i]

\* sa.and_(*args) under WHERE: every member holds (none, when empty).
and_(args, holds) == \A i \in 1..Len(args) : holds[i]

RECURSIVE Holds(_, _)
Holds(clause, row) ==
    CASE clause.op = "eq"    -> row[clause.field] = clause.value
      [] clause.op = "ilike" -> ilike(row[clause.field], clause.value)
      [] clause.op = "or"    ->
            or_(clause.args, [i \in 1..Len(clause.args) |-> Holds(clause.args[i], row)])
      [] clause.op = "and"   ->
            and_(clause.args, [i \in 1..Len(clause.args) |-> Holds(clause.args[i], row)])

\* The rows a statement selects, before ordering and windowing.
Selected(stmt, tbl) ==
    {r \in tbl : \A i \in 1..Len(stmt.wheres) : Holds(stmt.wheres[i], r)}

\* A sort key for a column value (names in dictionary order).
Rank(f, v) ==
    CASE f = "id"        -> v
      [] f = "name"      -> (CASE v = Name1 -> 1 [] v = Name2 -> 2 [] OTHER -> 3)
      [] f = "is_active" -> (IF v THEN 1 ELSE 0)
      [] OTHER           -> 0

\* r comes before q under the ORDER BY list from clause k on; rows that tie
\* on every clause come in primary-key order (the scan order of the table).
RECURSIVE Before(_, _, _, _)
Before(r, q, order, k) ==
    IF k > Len(order) THEN r.id < q.id
    ELSE LET a == Rank(order[k][1], r[order[k][1]])
             b == Rank(order[k][1], q[order[k][1]])
         IN  IF a = b THEN Before(r, q, order, k + 1)
             ELSE IF order[k][2] = "asc" THEN a < b ELSE a > b

RECURSIVE Ordered(_, _)
Ordered(S, order) ==
    IF S = {} THEN <<>>
    ELSE LET first == CHOOSE r \in S : \A q \in S \ {r} : Before(r, q, order, 1)
         IN  <<first>> \o Ordered(S \ {first}, order)

\* A window that applies the offset and forgets the limit.
WindowIgnoresLimit(rows, limit, offset) ==
    SubSeq(rows, offset + 1, Len(rows))

\* .limit(limit).offset(offset) applied to the ordered rows.
Window(rows, limit, offset) ==
    LET from == offset + 1
        to   == IF limit = NoLimit \/ offset + limit > Len(rows) THEN Len(rows) ELSE offset + limit
    IN  SubSeq(rows, from, to)

\* db.execute(query) ... .scalars().unique().all()
execute(stmt, tbl) == Window(Ordered(Selected(stmt, tbl), stmt.order_by), stmt.limit, stmt.offset)

\* db.scalar(select(count()).select_from(query.subquery())) or 0
count(stmt, tbl) == Len(execute(stmt, tbl))

(***************************************************************************)
(* A dict is the sequence of its <<key, value>> items in insertion order.  *)
(***************************************************************************)
SLS == "search_like_string"

Keys(d) == [i \in 1..Len(d) |-> d[i][1]]
HasKey(d, k) == \E i \in 1..Len(d) : d[i][1] = k

\* d.get(k) / d.pop(k, None); a missing key gives None, written as the
\* other falsy string "".
get(d, k) == IF HasKey(d, k) THEN d[CHOOSE i \in 1..Len(d) : d[i][1] = k][2] ELSE <<>>

RECURSIVE pop(_, _)
pop(d, k) ==
    IF d = <<>> THEN <<>>
    ELSE IF Head(d)[1] = k THEN pop(Tail(d), k)
    ELSE <<Head(d)>> \o pop(Tail(d), k)

RECURSIVE SetToSeq(_)
SetToSeq(S) ==
    IF S = {} THEN <<>>
    ELSE LET x == CHOOSE y \in S : TRUE IN <<x>> \o SetToSeq(S \ {x})

AttributeError == [kind |-> "AttributeError"]

\* BaseModel._build_conditions: one equality per item; getattr fails on a
\* name the record type does not have.
_build_conditions(c, f) ==
    IF \E i \in 1..Len(f) : ~HasAttr(c, f[i][1])
    THEN [raised |-> AttributeError, result |-> <<>>]
    ELSE [raised |-> NoError, result |-> [i \in 1..Len(f) |-> Eq(f[i][1], f[i][2])]]

\* BaseModel._build_sorting: one ORDER BY clause per item, nulls last.
_build_sorting(c, sort) ==
    IF \E i \in 1..Len(sort) : ~HasAttr(c, sort[i][1]) \/ sort[i][2] \notin {"asc", "desc"}
    THEN [raised |-> AttributeError, result |-> <<>>]
    ELSE [raised |-> NoError, result |-> sort]

\* BaseModel._build_search_like_string_stmt
_build_search_like_string_stmt(c, stmt, search_like_string) ==
    LET fields   == SetToSeq(search_like_fields(c))
        sls_stmt == SlsPattern(search_like_string)
        ilikes   == [i \in 1..Len(fields) |-> ILike(fields[i], sls_stmt)]
    IN  where(stmt, OrOf(ilikes))

\* BaseModel.filter.  f and conds are the caller's objects; the record gives
\* the exception or the value returned, and the two objects as the call
\* leaves them.
filter(c, f, conds, pag, sort, tbl) ==
    LET conds0 == conds
        hasSls == Truthy(f) /\ Truthy(get(f, SLS))
        tok    == get(f, SLS)
        f1     == IF hasSls THEN pop(f, SLS) ELSE f
        stmt1  == IF hasSls /\ Truthy(tok)
                  THEN _build_search_like_string_stmt(c, select, tok)
                  ELSE select
        built  == IF Truthy(f) THEN _build_conditions(c, f1)
                  ELSE [raised |-> NoError, result |-> <<>>]
        conds1 == conds0 \o built.result
        \* "conditions or []": an empty list is replaced by a new one, a
        \* non-empty one is the caller's object and is extended in place.
        left   == IF conds = <<>> THEN <<>> ELSE conds1
        sorted == IF Truthy(sort) THEN _build_sorting(c, sort)
                  ELSE [raised |-> NoError, result |-> <<>>]
        stmt2  == [stmt1 EXCEPT !.order_by = sorted.result]
        query  == where(stmt2, AndOf(conds1))
        total  == IF pag.present THEN count(query, tbl) ELSE 0
        query2 == IF pag.present
                  THEN [query EXCEPT !.limit = pag.limit, !.offset = pag.offset]
                  ELSE query
        serialised_result == execute(query2, tbl)
        passed == IF Truthy(f) THEN Keys(f1) ELSE <<>>
    IN  IF built.raised # NoError
        THEN [raised |-> built.raised, returned |-> [rows |-> <<>>],
              filters |-> f1, conditions |-> conds, passed |-> passed,
              searched |-> hasSls]
        ELSE IF sorted.raised # NoError
        THEN [raised |-> sorted.raised, returned |-> [rows |-> <<>>],
              filters |-> f1, conditions |-> left, passed |-> passed,
              searched |-> hasSls]
        ELSE [raised |-> NoError,
              returned |-> IF pag.present
                           THEN [rows |-> serialised_result, total |-> total]
                           ELSE [rows |-> serialised_result],
              filters |-> f1, conditions |-> left, passed |-> passed,
              searched |-> hasSls]

(***************************************************************************)
(* Values the variables of the other specifications rest at.               *)
(***************************************************************************)
NoPagination == [present |-> FALSE, limit |-> 0, offset |-> 0]
NoSorting    == <<>>
NoCall       == [op |-> "none"]

FilterIdle ==
    /\ table = {} /\ filters = <<>> /\ conditions = <<>>
    /\ pagination = NoPagination /\ sorting = NoSorting /\ calls = <<>>

LifeIdle ==
    /\ store = {} /\ clock = 1 /\ nextId = <<>>
    /\ last = NoCall /\ deletedIds = {} /\ session = "active"

(***************************************************************************)
(* FilterSpec: filter called twice in a row with the same argument objects *)
(* against an unchanged table.                                             *)
(***************************************************************************)
MaxRows  == 2
MaxLimit == 1

\* Tables the store can hold: primary keys and names are unique; a Tag has
\* no is_active column (the field is carried, and never read).
Rows(c) ==
    [id : 1..MaxRows, name : Names, is_active : IF c = "Team" THEN BOOLEAN ELSE {TRUE}]

Tables(c) ==
    {t \in SUBSET Rows(c) :
        \A r, q \in t : (r.id = q.id \/ r.name = q.name) => r = q}

FilterDicts ==
    {a \o n \o t :
        a \in {<<>>, <<<<"is_active", TRUE>>>>, <<<<"is_active", FALSE>>>>},
        n \in {<<>>, <<<<"name", Name1>>>>},
        t \in {<<>>, <<<<SLS, <<>>>>>>, <<<<SLS, <<"a", " ", "t">>>>>>, <<<<SLS, <<"t">>>>>>}}

ConditionLists == {<<>>, <<Eq("name", Name1)>>, <<OrOf(<<Eq("id", 1), Eq("id", 2)>>)>>}

Paginations ==
    {NoPagination} \cup [present : {TRUE}, limit : 0..MaxLimit, offset : {0, 1}]

Sortings == {NoSorting, <<<<"name", "desc">>>>}

FilterInit ==
    /\ cls \in RecordTypes
    /\ table \in Tables(cls)
    /\ filters \in FilterDicts
    /\ conditions \in ConditionLists
    /\ pagination \in Paginations
    /\ sorting \in Sortings
    /\ calls = <<>>
    /\ raised = NoError /\ log = <<>> /\ info = <<>>
    /\ LifeIdle

\* One call of cls.filter(db, filters, conditions, pagination, sorting).
Filter ==
    /\ Len(calls) < 2
    /\ LET out == filter(cls, filters, conditions, pagination, sorting, table)
       IN  /\ calls' = Append(calls, [filters |-> filters, conditions |-> conditions,
                                      out |-> out])
           /\ filters' = out.filters
           /\ conditions' = out.conditions
           /\ raised' = out.raised
    /\ UNCHANGED <<info, log, table, cls, pagination, sorting, lvars>>

FilterNext == Filter

FilterSpec == FilterInit /\ [][FilterNext]_vars

(***************************************************************************)
(* The record lifecycle.  A stored row is                                  *)
(*    [cls, id, name, is_active, created_at, updated_at]                   *)
(* and an in-memory record [state, cls, id, attrs]: after every successful *)
(* save the record is refreshed from its row, so between calls its column  *)
(* values are the row's and the record is known by its class and id;       *)
(* attrs are the names set on the instance that are no columns.            *)
(***************************************************************************)
MaxInserts == 2
MaxClock   == 2

None  == 0
NoRow == [cls |-> "none"]

\* The record loaded from the row (c, id).
Persistent(c, id) == [state |-> "persistent", cls |-> c, id |-> id, attrs |-> {}]

RowOf(st, c, id) ==
    IF \E r \in st : r.cls = c /\ r.id = id
    THEN CHOOSE r \in st : r.cls = c /\ r.id = id
    ELSE NoRow

\* What the backend reports in exc.orig.args[0].
UniqueMessage(col) == <<"x", NL, "x", KEY, col, SEP, "x", EXISTS, "x">>
NotNullMessage     == <<"x", NL, "x">>

\* The readings utcnow can give right after the reading t: the same
\* instant or the next one.
Ticks(t) == {u \in {t, t + 1} : u <= MaxClock}

\* The items of a dict whose keys are columns of the record type.
RECURSIVE ColumnItems(_, _)
ColumnItems(c, d) ==
    IF d = <<>> THEN <<>>
    ELSE IF Head(d)[1] \in Columns(c) THEN <<Head(d)>> \o ColumnItems(c, Tail(d))
    ELSE ColumnItems(c, Tail(d))

\* BaseModel.update_attrs: setattr for every item.  On a key that is no
\* column setattr creates a plain instance attribute; it raises nothing.
update_attrs(o, data) ==
    [o EXCEPT !.attrs = @ \cup {data[i][1] : i \in {j \in 1..Len(data) : data[j][1] \notin Columns(o.cls)}}]

\* db.flush() for a record that is not yet in the store: INSERT.  t1 and t2
\* are the readings of utcnow for the defaults of created_at and updated_at.
FlushInsert(o, set, st, nid, clk, t1, t2) ==
    IF ~HasKey(set, "name")
    THEN [ok |-> FALSE, args |-> <<NotNullMessage>>, store |-> st, id |-> None,
          nextId |-> nid, clock |-> clk]
    ELSE IF \E r \in st : r.cls = o.cls /\ r.name = get(set, "name")
    THEN [ok |-> FALSE, args |-> <<UniqueMessage("name")>>, store |-> st, id |-> None,
          nextId |-> nid, clock |-> clk]
    ELSE LET row == [cls        |-> o.cls,
                     id         |-> nid[o.cls],
                     name       |-> get(set, "name"),
                     is_active  |-> IF HasKey(set, "is_active") THEN get(set, "is_active") ELSE TRUE,
                     created_at |-> IF HasKey(set, "created_at") THEN get(set, "created_at") ELSE t1,
                     updated_at |-> IF HasKey(set, "updated_at") THEN get(set, "updated_at") ELSE t2]
         IN  [ok |-> TRUE, args |-> <<>>, store |-> st \cup {row}, id |-> row.id,
              nextId |-> [nid EXCEPT ![o.cls] = @ + 1],
              clock |-> IF ~HasKey(set, "updated_at") THEN t2
                        ELSE IF ~HasKey(set, "created_at") THEN t1 ELSE clk]

\* An UPDATE that stamps created_at as well as updated_at.
OnUpdateTouchesCreated(row, changed, set, t) ==
    [row EXCEPT !.name       = IF "name" \in changed THEN get(set, "name") ELSE @,
                !.is_active  = IF "is_active" \in changed THEN get(set, "is_active") ELSE @,
                !.created_at = t,
                !.updated_at = t]

\* The row an UPDATE leaves: the changed columns, and updated_at from
\* onupdate=utcnow unless the statement sets it.
Updated(row, changed, set, t) ==
    [row EXCEPT !.name       = IF "name" \in changed THEN get(set, "name") ELSE @,
                !.is_active  = IF "is_active" \in changed THEN get(set, "is_active") ELSE @,
                !.created_at = IF "created_at" \in changed THEN get(set, "created_at") ELSE @,
                !.updated_at = IF "updated_at" \in changed THEN get(set, "updated_at") ELSE t]

\* db.flush() for a persistent record: UPDATE of the columns whose value
\* changed, none when no value did.
FlushUpdate(o, set, st, nid, clk, t) ==
    LET row     == RowOf(st, o.cls, o.id)
        changed == {k \in {set[i][1] : i \in 1..Len(set)} : get(set, k) # row[k]}
    IN  IF changed = {}
        THEN [ok |-> TRUE, args |-> <<>>, store |-> st, id |-> o.id, nextId |-> nid,
              clock |-> clk]
        ELSE IF "name" \in changed
                /\ \E r \in st : r.cls = o.cls /\ r.id # o.id /\ r.name = get(set, "name")
        THEN [ok |-> FALSE, args |-> <<UniqueMessage("name")>>, store |-> st, id |-> o.id,
              nextId |-> nid, clock |-> clk]
        ELSE [ok |-> TRUE, args |-> <<>>,
              store |-> (st \ {row}) \cup {Updated(row, changed, set, t)},
              id |-> o.id, nextId |-> nid,
              clock |-> IF "updated_at" \in changed THEN clk ELSE t]

flush(o, set, st, nid, clk, t1, t2) ==
    IF o.state = "persistent" THEN FlushUpdate(o, set, st, nid, clk, t2)
    ELSE FlushInsert(o, set, st, nid, clk, t1, t2)

\* save with the log line chosen by self.id as read after the flush.
SaveLogsBySelfId(o, set, st, nid, clk, t1, t2) ==
    LET f == flush(o, set, st, nid, clk, t1, t2)
        c == _raise_validation_exception(f.args, o.cls)
    IN  IF ~f.ok
        THEN [raised |-> c.error, log |-> <<"db.add", "db.flush">> \o c.logged,
              info |-> f.args, store |-> f.store, nextId |-> f.nextId, clock |-> f.clock,
              obj |-> o]
        ELSE [raised |-> NoError,
              log |-> <<"db.add", "db.flush",
                        IF f.id = None THEN "logger.info created" ELSE "logger.info updated",
                        "db.refresh">>,
              info |-> <<>>, store |-> f.store, nextId |-> f.nextId, clock |-> f.clock,
              obj |-> [o EXCEPT !.state = "persistent", !.id = f.id]]

\* BaseModel.save: db.add, db.flush, then either the classifier or the log
\* line and db.refresh.  set holds the column values assigned on the record.
save(o, set, st, nid, clk, t1, t2) ==
    LET obj_id == o.id
        f == flush(o, set, st, nid, clk, t1, t2)
        c == _raise_validation_exception(f.args, o.cls)
    IN  IF ~f.ok
        THEN [raised |-> c.error, log |-> <<"db.add", "db.flush">> \o c.logged,
              info |-> f.args, store |-> f.store, nextId |-> f.nextId, clock |-> f.clock,
              obj |-> o]
        ELSE [raised |-> NoError,
              log |-> <<"db.add", "db.flush",
                        IF obj_id = None THEN "logger.info created" ELSE "logger.info updated",
                        "db.refresh">>,
              info |-> <<>>, store |-> f.store, nextId |-> f.nextId, clock |-> f.clock,
              obj |-> [o EXCEPT !.state = "persistent", !.id = f.id]]

\* BaseModel.get_one_by_filter: select(cls).where(and_(*conditions)),
\* .scalars().unique().first()
get_one_by_filter(c, conds, st) ==
    LET rows == execute(where(select, AndOf(conds)), {r \in st : r.cls = c})
    IN  IF rows = <<>> THEN NoRow ELSE rows[1]

get_by_id(c, item_id, st) == get_one_by_filter(c, <<Eq("id", item_id)>>, st)

get_by_name(c, name, st) == get_one_by_filter(c, <<Eq("name", name)>>, st)

\* A delete whose row stays in the store.
DeleteKeepsRow(o, st) ==
    [raised |-> NoError, log |-> <<"db.delete", "db.flush", "logger.debug deleted">>,
     store |-> st, obj |-> [o EXCEPT !.state = "deleted"]]

\* BaseModel.delete: db.delete, db.flush, log.
delete(o, st) ==
    [raised |-> NoError, log |-> <<"db.delete", "db.flush", "logger.debug deleted">>,
     store |-> st \ {RowOf(st, o.cls, o.id)}, obj |-> [o EXCEPT !.state = "deleted"]]

\* A soft delete that removes the row as BaseModel.delete does.
SoftDeleteRemovesRow(o, st, nid, clk, t) ==
    [raised |-> NoError, log |-> <<"db.delete", "db.flush", "logger.debug deleted">>,
     info |-> <<>>, store |-> st \ {RowOf(st, o.cls, o.id)}, nextId |-> nid, clock |-> clk,
     obj |-> [o EXCEPT !.state = "deleted"]]

\* BaseModelSoftDelete.delete: self.is_active = False; save.
soft_delete(o, st, nid, clk, t) == save(o, <<<<"is_active", FALSE>>>>, st, nid, clk, t, t)

\* BaseModelSoftDelete.undelete: self.is_active = True; save.
undelete(o, st, nid, clk, t) == save(o, <<<<"is_active", TRUE>>>>, st, nid, clk, t, t)

\* BaseModel.create: the items of data that name attributes of the class,
\* then save.
create(c, data, st, nid, clk, t1, t2) ==
    LET new_item == [state |-> "transient", cls |-> c, id |-> None, attrs |-> {}]
    IN  save(new_item, ColumnItems(c, data), st, nid, clk, t1, t2)

\* BaseModel.update: update_attrs, then save.
update(o, data, st, nid, clk, t) ==
    save(update_attrs(o, data), ColumnItems(o.cls, data), st, nid, clk, t, t)

(***************************************************************************)
(* Spec: the calls a caller makes inside one unit-of-work.  A failed flush *)
(* leaves the session in need of a rollback, which only the caller can     *)
(* issue: no further call is made in it.  Here the clock advances only     *)
(* while a row is inserted; AuditSpec adds the time between calls.         *)
(***************************************************************************)
DataMaps ==
    { <<>>,
      <<<<"name", Name1>>>>,
      <<<<"name", Name2>>>>,
      <<<<"is_active", FALSE>>>>,
      <<<<"bogus", 1>>>>,
      <<<<"name", Name1>>, <<"bogus", 1>>>> }

\* Data that also assigns the audit columns.
AuditMaps ==
    DataMaps \cup
    { <<<<"created_at", 0>>>>,
      <<<<"updated_at", 0>>>>,
      <<<<"updated_at", MaxClock + 1>>>>,
      <<<<"name", Name2>>, <<"created_at", 0>>>> }

Init ==
    /\ store = {}
    /\ clock = 1
    /\ nextId = [c \in RecordTypes |-> 1]
    /\ last = NoCall
    /\ deletedIds = {}
    /\ session = "active"
    /\ raised = NoError /\ log = <<>> /\ info = <<>>
    /\ cls = "Tag" /\ FilterIdle

\* The rows inserted so far, over all tables.
Inserted == nextId["Team"] + nextId["Tag"] - 2

\* The persistent records of the unit-of-work, each known by class and id.
Records == {<<r.cls, r.id>> : r \in store}

\* What a call that went through save leaves behind.
Saved(out, call) ==
    /\ store' = out.store
    /\ clock' = out.clock
    /\ nextId' = out.nextId
    /\ raised' = out.raised
    /\ log' = out.log
    /\ info' = out.info
    /\ session' = IF out.raised = NoError THEN "active" ELSE "failed"
    /\ last' = [call EXCEPT !.id = out.obj.id, !.attrs = out.obj.attrs]
    /\ UNCHANGED <<deletedIds, fvars>>

Call(op, c, id, data) ==
    [op |-> op, cls |-> c, id |-> id, data |-> data, attrs |-> {},
     before |-> [row |-> RowOf(store, c, id), id |-> id, rows |-> Cardinality(store),
                 clock |-> clock]]

Create(c, data) ==
    /\ session = "active"
    /\ Inserted < MaxInserts
    /\ \E t2 \in Ticks(clock) :
          Saved(create(c, data, store, nextId, clock, clock, t2), Call("create", c, None, data))

Save(c, id) ==
    /\ session = "active"
    /\ <<c, id>> \in Records
    /\ Saved(save(Persistent(c, id), <<>>, store, nextId, clock, clock, clock),
             Call("save", c, id, <<>>))

Update(c, id, data) ==
    /\ session = "active"
    /\ <<c, id>> \in Records
    /\ Saved(update(Persistent(c, id), data, store, nextId, clock, clock),
             Call("update", c, id, data))

SoftDelete(c, id) ==
    /\ session = "active"
    /\ <<c, id>> \in Records
    /\ SoftDeletable(c)
    /\ Saved(soft_delete(Persistent(c, id), store, nextId, clock, clock),
             Call("soft_delete", c, id, <<>>))

Undelete(c, id) ==
    /\ session = "active"
    /\ <<c, id>> \in Records
    /\ SoftDeletable(c)
    /\ Saved(undelete(Persistent(c, id), store, nextId, clock, clock),
             Call("undelete", c, id, <<>>))

HardDelete(c, id) ==
    /\ session = "active"
    /\ <<c, id>> \in Records
    /\ ~SoftDeletable(c)
    /\ LET out == delete(Persistent(c, id), store)
       IN  /\ store' = out.store
           /\ raised' = out.raised
           /\ log' = out.log
           /\ deletedIds' = deletedIds \cup {<<c, id>>}
           /\ last' = Call("delete", c, id, <<>>)
    /\ UNCHANGED <<info, clock, nextId, session, fvars>>

GetById(c, item_id) ==
    /\ session = "active"
    /\ last' = [op |-> "get_by_id", cls |-> c, id |-> item_id,
                result |-> get_by_id(c, item_id, store)]
    /\ raised' = NoError
    /\ log' = <<"db.execute">>
    /\ UNCHANGED <<info, store, clock, nextId, deletedIds, session, fvars>>

GetByName(c, name) ==
    /\ session = "active"
    /\ last' = [op |-> "get_by_name", cls |-> c, name |-> name,
                result |-> get_by_name(c, name, store)]
    /\ raised' = NoError
    /\ log' = <<"db.execute">>
    /\ UNCHANGED <<info, store, clock, nextId, deletedIds, session, fvars>>

\* Time passes between two calls.
Tick ==
    /\ session = "active"
    /\ clock < MaxClock
    /\ clock' = clock + 1
    /\ UNCHANGED <<info, raised, log, store, nextId, last, deletedIds, session, fvars>>

Ids == 1..MaxInserts

Next ==
    \/ \E c \in RecordTypes, data \in DataMaps : Create(c, data)
    \/ \E c \in RecordTypes, id \in Ids : Save(c, id)
    \/ \E c \in RecordTypes, id \in Ids, data \in DataMaps : Update(c, id, data)
    \/ \E c \in RecordTypes, id \in Ids : SoftDelete(c, id)
    \/ \E c \in RecordTypes, id \in Ids : Undelete(c, id)
    \/ \E c \in RecordTypes, id \in Ids : HardDelete(c, id)
    \/ \E c \in RecordTypes, item_id \in Ids : GetById(c, item_id)
    \/ \E c \in RecordTypes, name \in {Name1, Name2} : GetByName(c, name)

Spec == Init /\ [][Next]_vars

(***************************************************************************)
(* AuditSpec: the calls that write the audit columns of one record type,   *)
(* with data that may name those columns.                                  *)
(***************************************************************************)
AuditNext ==
    \/ Tick
    \/ \E data \in AuditMaps : Create("Tag", data)
    \/ \E id \in Ids : Save("Tag", id)
    \/ \E id \in Ids, data \in AuditMaps : Update("Tag", id, data)

AuditSpec == Init /\ [][AuditNext]_vars

(***************************************************************************)
(* ClassifySpec: the classifier applied to every failure.                  *)
(***************************************************************************)
RECURSIVE SeqsUpTo(_, _)
SeqsUpTo(S, n) ==
    IF n = 0 THEN {<<>>}
    ELSE LET shorter == SeqsUpTo(S, n - 1)
         IN  shorter \cup {Append(s, x) : s \in {t \in shorter : Len(t) = n - 1}, x \in S}

Messages == SeqsUpTo(Tokens, MaxMsgLen)

ClassifyInit ==
    /\ info \in {<<>>} \cup {<<m>> : m \in Messages}
    /\ cls \in RecordTypes
    /\ raised = NoError
    /\ log = <<>>
    /\ FilterIdle /\ LifeIdle

\* save()'s except branch: self._raise_validation_exception(exc).
Classify ==
    /\ raised = NoError
    /\ LET r == _raise_validation_exception(info, cls)
       IN  /\ raised' = r.error
           /\ log' = r.logged
    /\ UNCHANGED <<info, fvars, lvars>>

ClassifyNext == Classify

ClassifySpec == ClassifyInit /\ [][ClassifyNext]_vars

(***************************************************************************)
(* Properties of the classifier (ClassifySpec).                            *)
(***************************************************************************)

\* The column group of the leftmost occurrence of "Key (<cols>)=(<vals>)
\* <tail>" on one line of s, taken as long as possible; empty when there is
\* no occurrence.
C1_Columns(tail, s) ==
    LET n == Len(s)
        Ok(i, g) == /\ s[i] = KEY /\ s[g] = SEP
                    /\ \E t \in (g + 1)..n : s[t] = tail /\ \A k \in (i + 1)..(t - 1) : s[k] # NL
        starts == {i \in 1..n : \E g \in (i + 1)..n : Ok(i, g)}
    IN  IF starts = {} THEN <<>>
        ELSE LET i == CHOOSE x \in starts : \A y \in starts : x <= y
                 g == CHOOSE x \in {y \in (i + 1)..n : Ok(i, y)} :
                          \A y \in (i + 1)..n : Ok(i, y) => y <= x
             IN  SubSeq(s, i + 1, g - 1)

\* C1: every classified failure raises exactly one typed error: Uniqueness
\* with the column list when the message has an "already exists" occurrence
\* with a non-empty column group; else Reference with the column list when
\* it has an "is not present in table" occurrence with a non-empty group;
\* else (no message, no occurrence, empty group) the generic Integrity error
\* with the record type name only, after the error was logged.  A message
\* with both occurrences is a Uniqueness violation.
C1_Classification ==
    raised # NoError =>
        LET u == IF info = <<>> THEN <<>> ELSE C1_Columns(EXISTS, info[1])
            r == IF info = <<>> THEN <<>> ELSE C1_Columns(ABSENT, info[1])
        IN  IF u # <<>>
            THEN /\ raised = [kind |-> "DatabaseValidationError",
                              message |-> "Unique constraint violated for",
                              cls |-> cls, cols |-> u]
                 /\ log = <<>>
            ELSE IF r # <<>>
            THEN /\ raised = [kind |-> "DatabaseValidationError",
                              message |-> "Foreign key constraint violated for",
                              cls |-> cls, cols |-> r]
                 /\ log = <<>>
            ELSE /\ raised = [kind |-> "DatabaseIntegrityError",
                              message |-> "Integrity error for", cls |-> cls]
                 /\ log = <<"logger.error">>

\* A message with both occurrences was classified as a Uniqueness violation.
C1_BothPatternsWitness ==
    /\ raised # NoError
    /\ info # <<>>
    /\ C1_Columns(EXISTS, info[1]) # <<>>
    /\ C1_Columns(ABSENT, info[1]) # <<>>
    /\ raised.message = "Unique constraint violated for"

(***************************************************************************)
(* Properties of filter (FilterSpec).                                      *)
(***************************************************************************)

\* The rows of the table that satisfy the equality filters, the conditions
\* and, when a search token is given and the type has search-like fields,
\* the search predicate of call k.
C2_Matching(k) ==
    LET fb  == calls[k].filters
        cb  == calls[k].conditions
        tok == get(fb, SLS)
    IN  {r \in table :
            /\ \A i \in 1..Len(fb) : fb[i][1] # SLS => r[fb[i][1]] = fb[i][2]
            /\ \A j \in 1..Len(cb) : Holds(cb[j], r)
            /\ (tok # <<>> /\ search_like_fields(cls) # {})
                  => \E f \in search_like_fields(cls) : ilike(r[f], SlsPattern(tok))}

\* C2: with pagination filter returns (page, total): the page has at most
\* limit rows, all of them matching, and total is the number of matching
\* rows whatever limit and offset are; without pagination it returns the
\* sequence of all matching rows and no count.
C2_PageAndTotal ==
    \A k \in 1..Len(calls) :
        calls[k].out.raised = NoError =>
            LET ret == calls[k].out.returned
                m   == C2_Matching(k)
            IN  /\ \A i \in 1..Len(ret.rows) : ret.rows[i] \in m
                /\ IF pagination.present
                   THEN /\ DOMAIN ret = {"rows", "total"}
                        /\ Len(ret.rows) <= pagination.limit
                        /\ ret.total = Cardinality(m)
                   ELSE /\ DOMAIN ret = {"rows"}
                        /\ {ret.rows[i] : i \in 1..Len(ret.rows)} = m
                        /\ Len(ret.rows) = Cardinality(m)

\* A filtered, paginated call whose page is full and shorter than the total.
C2_FullPageWitness ==
    \E k \in 1..Len(calls) :
        /\ calls[k].out.raised = NoError
        /\ calls[k].filters # <<>>
        /\ pagination.present /\ pagination.limit >= 1
        /\ Len(calls[k].out.returned.rows) = pagination.limit
        /\ calls[k].out.returned.total > pagination.limit

\* C3: whenever filters holds the search key, whatever its value, filter
\* removes the key, applies the search predicate and never hands the key to
\* the condition builder.
C3_SearchKeyExtracted ==
    \A k \in 1..Len(calls) :
        HasKey(calls[k].filters, SLS) =>
            /\ calls[k].out.searched
            /\ ~HasKey(calls[k].out.filters, SLS)
            /\ \A i \in 1..Len(calls[k].out.passed) : calls[k].out.passed[i] # SLS

\* C8: for a record type without search-like fields, a call that applied
\* the search predicate returns what the same call without the token
\* returns.
C8_EmptySearchIsNoOp ==
    \A k \in 1..Len(calls) :
        (search_like_fields(cls) = {} /\ calls[k].out.searched) =>
            LET without == filter(cls, pop(calls[k].filters, SLS), calls[k].conditions,
                                  pagination, sorting, table)
            IN  /\ calls[k].out.raised = without.raised
                /\ calls[k].out.returned = without.returned

\* A search on a type without search-like fields that returned rows.
C8_SearchedWitness ==
    \E k \in 1..Len(calls) :
        /\ search_like_fields(cls) = {}
        /\ calls[k].out.searched
        /\ calls[k].out.raised = NoError
        /\ Len(calls[k].out.returned.rows) > 0

\* C10: a second call with the same filters and conditions objects against
\* the unchanged table returns what the first call returned.
C10_Repeatable ==
    Len(calls) = 2 =>
        /\ calls[2].out.raised = calls[1].out.raised
        /\ calls[2].out.returned = calls[1].out.returned

(***************************************************************************)
(* Properties of the record lifecycle (Spec, AuditSpec).                   *)
(***************************************************************************)

\* C4: delete() on a stored soft-deletable record leaves its row
\* retrievable by id with is_active = FALSE, undelete() with is_active =
\* TRUE, and neither changes the number of rows.
C4_SoftDeleteKeepsRow ==
    last.op \in {"soft_delete", "undelete"} =>
        /\ raised = NoError
        /\ get_by_id(last.cls, last.id, store) # NoRow
        /\ get_by_id(last.cls, last.id, store).is_active = (last.op = "undelete")
        /\ Cardinality(store) = last.before.rows

\* An inactive row was restored by undelete().
C4_RestoredWitness ==
    /\ last.op = "undelete"
    /\ last.before.row.is_active = FALSE
    /\ get_by_id(last.cls, last.id, store).is_active = TRUE
    /\ Cardinality(store) = 2

\* C5: get_by_id with the id of a hard-deleted record returns no record,
\* and get_by_id / get_by_name that match no row return no record and
\* raise nothing.
C5_DeletedNotFound ==
    /\ (last.op = "get_by_id" /\ <<last.cls, last.id>> \in deletedIds)
          => last.result = NoRow
    /\ (last.op = "get_by_id" /\ ~\E r \in store : r.cls = last.cls /\ r.id = last.id)
          => (last.result = NoRow /\ raised = NoError)
    /\ (last.op = "get_by_name" /\ ~\E r \in store : r.cls = last.cls /\ r.name = last.name)
          => (last.result = NoRow /\ raised = NoError)

\* The id of a hard-deleted record was looked up while other rows exist.
C5_LookupAfterDeleteWitness ==
    /\ last.op = "get_by_id"
    /\ <<last.cls, last.id>> \in deletedIds
    /\ \E r \in store : r.cls = last.cls
    /\ last.result = NoRow

\* C6: update(data) with a key that is no declared attribute fails on the
\* assignment, and add / flush are never reached.
C6_UnknownKeyFatal ==
    (last.op = "update" /\ \E i \in 1..Len(last.data) : last.data[i][1] \notin Columns(last.cls))
        => (raised = AttributeError /\ log = <<>>)

AuditKeys == {"id", "created_at", "updated_at"}

AssignsAudit(data) == \E i \in 1..Len(data) : data[i][1] \in AuditKeys

\* C7 as stated: the first save gives a non-null id and equal timestamps;
\* every later successful update(data) keeps created_at and the id and
\* does not move updated_at back.
C7_AuditFields ==
    LET r == RowOf(store, last.cls, last.id)
    IN  /\ (last.op = "create" /\ raised = NoError)
              => (last.id # None /\ r.created_at = r.updated_at)
        /\ (last.op = "update" /\ raised = NoError)
              => /\ r.created_at = last.before.row.created_at
                 /\ r.id = last.before.id
                 /\ r.updated_at >= last.before.row.updated_at

\* C7 amended: the first save gives a non-null id and, when data assigns no
\* audit column, created_at <= updated_at, both read from the clock during
\* the save; a later successful update(data) whose data assigns no audit
\* column keeps created_at and the id, and does not move updated_at back
\* unless the stored value was ahead of the clock.
C7_AuditFieldsAmended ==
    LET r == RowOf(store, last.cls, last.id)
    IN  /\ (last.op = "create" /\ raised = NoError)
              => /\ last.id # None
                 /\ ~AssignsAudit(last.data)
                       => /\ last.before.clock <= r.created_at
                          /\ r.created_at <= r.updated_at
                          /\ r.updated_at <= clock
        /\ (last.op = "update" /\ raised = NoError /\ ~AssignsAudit(last.data))
              => /\ r.created_at = last.before.row.created_at
                 /\ r.id = last.before.id
                 /\ last.before.row.updated_at <= last.before.clock
                       => r.updated_at >= last.before.row.updated_at

\* An update without audit keys moved updated_at forward, past created_at.
C7_UpdateAdvancedWitness ==
    /\ last.op = "update" /\ raised = NoError /\ ~AssignsAudit(last.data)
    /\ RowOf(store, last.cls, last.id).updated_at > last.before.row.updated_at
    /\ RowOf(store, last.cls, last.id).created_at = last.before.row.created_at
    /\ last.before.row.created_at > 0

\* C9: every save stages, then flushes once; on success it logs "created"
\* exactly when the id was absent before the flush, "updated" otherwise,
\* and refreshes; on a constraint violation the failure is classified once
\* and raised with no creation/update log, no refresh, no second flush, and
\* the session is never committed, rolled back or closed.
C9_SaveProtocol ==
    last.op \in {"create", "save", "update", "soft_delete", "undelete"} =>
        IF raised = NoError
        THEN log = <<"db.add", "db.flush",
                     IF last.before.id = None THEN "logger.info created"
                                              ELSE "logger.info updated",
                     "db.refresh">>
        ELSE /\ info # <<>>
             /\ raised = _raise_validation_exception(info, last.cls).error
             /\ \/ log = <<"db.add", "db.flush">>
                \/ log = <<"db.add", "db.flush", "logger.error">>

\* An update ran into the unique constraint and left as a validation error.
C9_FailedFlushWitness ==
    /\ last.op = "update"
    /\ raised # NoError
    /\ raised.kind = "DatabaseValidationError"
    /\ log = <<"db.add", "db.flush">>

====
